---- MODULE Spec2Model ----
(***************************************************************************)
(* Model of the inform.kz news crawler: the date-range helper              *)
(* (app/helper.py) and the crawler's fetch, link discovery and article     *)
(* field extraction (app/crawler/crawler.py).                              *)
(*                                                                         *)
(* Strings are sequences.  A date string "dd.mm.yyyy" is the sequence of   *)
(* the numbers between its dots, <<dd, mm, yyyy>>; a string with fewer     *)
(* fields stands for text that does not have the dd.mm.yyyy shape.  A URL  *)
(* or href is a sequence of lexical tokens ("https:", "//", a host, "/",   *)
(* a path segment); page text is a sequence of characters.  An optional    *)
(* Python value is << >> for None and <<v>> for the value v.               *)
(***************************************************************************)
EXTENDS Integers, Sequences, FiniteSets, TLC

VARIABLES
    dPc, dStart, dEnd, dLogger, dResult,            \* Helper.generate_dates
    xPc, xResponse, xResult,                        \* Crawler._extract_links
    lPc, lResponse, lArticles, lPages, lFetches, lOutcome,  \* Crawler.get_links
    aPc, aResponse, aSoup, aFields, aOutcome,       \* Crawler.extract_article
    bPc, bRaw, bOut                                 \* Crawler._get_body

dVars == <<dPc, dStart, dEnd, dLogger, dResult>>

xVars == <<xPc, xResponse, xResult>>

lVars == <<lPc, lResponse, lArticles, lPages, lFetches, lOutcome>>

aVars == <<aPc, aResponse, aSoup, aFields, aOutcome>>

bVars == <<bPc, bRaw, bOut>>

vars == <<dVars, xVars, lVars, aVars, bVars>>

(***************************************************************************)
(* Bounds of the model.                                                    *)
(***************************************************************************)
MaxSpan == 61

MaxBlocks == 2

MaxAnchors == 2

MaxPage == 3

MaxChildren == 3

MaxLen == 5

(***************************************************************************)
(* Outcomes of a call: a normal return, or the exception that ends it.     *)
(* logged tells whether logger.error was reached and succeeded.            *)
(***************************************************************************)
Returned(v) == [kind |-> "return", value |-> v, logged |-> FALSE]

Raised(exc, wasLogged) == [kind |-> exc, value |-> << >>, logged |-> wasLogged]

NotCalled == [kind |-> "none", value |-> << >>, logged |-> FALSE]

(***************************************************************************)
(* datetime: the proleptic Gregorian calendar as the standard library      *)
(* computes it, years MINYEAR..MAXYEAR.                                    *)
(***************************************************************************)
MAXYEAR == 9999

IsLeap(y) == (y % 4 = 0) /\ ((y % 100 # 0) \/ (y % 400 = 0))

DaysInMonth(y, m) ==
    IF m = 2 THEN (IF IsLeap(y) THEN 29 ELSE 28)
    ELSE IF m \in {4, 6, 9, 11} THEN 30 ELSE 31

DaysBeforeYear(y) ==
    LET p == y - 1 IN p * 365 + (p \div 4) - (p \div 100) + (p \div 400)

RECURSIVE DaysBeforeMonth(_, _)
DaysBeforeMonth(y, m) ==
    IF m <= 1 THEN 0 ELSE DaysBeforeMonth(y, m - 1) + DaysInMonth(y, m - 1)

Ymd2Ord(y, m, d) == DaysBeforeYear(y) + DaysBeforeMonth(y, m) + d

\* ordinal -> <<year, month, day>>, by 400/100/4/1-year cycles
Ord2Ymd(ord) ==
    LET n0   == ord - 1
        n400 == n0 \div 146097
        r400 == n0 % 146097
        n100 == r400 \div 36524
        r100 == r400 % 36524
        n4   == r100 \div 1461
        r4   == r100 % 1461
        n1   == r4 \div 365
        n    == r4 % 365
        year == n400 * 400 + 1 + n100 * 100 + n4 * 4 + n1
    IN  IF n1 = 4 \/ n100 = 4
        THEN <<year - 1, 12, 31>>
        ELSE LET leap  == (n1 = 3) /\ (n4 # 24 \/ n100 = 3)
                 guess == (n + 50) \div 32
                 adj(mm) == IF mm > 2 /\ leap THEN 1 ELSE 0
                 before(mm) == DaysBeforeMonth(1, mm) + adj(mm)
                 month == IF before(guess) > n THEN guess - 1 ELSE guess
             IN  <<year, month, n - before(month) + 1>>

MaxOrdinal == Ymd2Ord(MAXYEAR, 12, 31)

\* strptime(s, '%d.%m.%Y') succeeds: three fields, day 1..31, month 1..12,
\* a four-digit year that is not 0000, and a day the month has
Parses(s) ==
    /\ Len(s) = 3
    /\ s[1] \in 1..31
    /\ s[2] \in 1..12
    /\ s[3] \in 1..MAXYEAR
    /\ s[1] <= DaysInMonth(s[3], s[2])

\* the datetime strptime returns, as its day ordinal
strptime(s) == Ymd2Ord(s[3], s[2], s[1])

\* strftime('%d.%m.%Y') of the datetime with ordinal ord
strftime(ord) == LET ymd == Ord2Ymd(ord) IN <<ymd[3], ymd[2], ymd[1]>>

\* Faulty variant: the range includes the end day.
DateRangeInclusive(s, e) == [x \in 1..(e - s + 1) |-> strftime(s + (x - 1))]

\* [(start + timedelta(days=x)).strftime(format) for x in range(0, (end-start).days)]
DateRange(s, e) == [x \in 1..(e - s) |-> strftime(s + (x - 1))]

\* logger.error(...) followed by raise SystemExit: with logger None the
\* attribute lookup raises AttributeError before anything is logged
LogAndExit(logger) ==
    IF logger THEN Raised("SystemExit", TRUE) ELSE Raised("AttributeError", FALSE)

generate_dates(start_date, end_date, logger) ==
    IF ~Parses(start_date) THEN LogAndExit(logger)
    ELSE IF end_date # << >> /\ ~Parses(end_date[1]) THEN LogAndExit(logger)
    ELSE IF end_date = << >> /\ strptime(start_date) + 1 > MaxOrdinal
         THEN Raised("OverflowError", FALSE)
    ELSE LET s == strptime(start_date)
             e == IF end_date = << >> THEN s + 1 ELSE strptime(end_date[1])
         IN  IF s >= e THEN LogAndExit(logger)
             ELSE Returned(DateRange(s, e))

(***************************************************************************)
(* Inputs of the date-range helper.                                        *)
(***************************************************************************)
DayFields == {1, 28, 29, 31, 32}

MonthFields == {1, 2, 3, 12, 13}

YearFields == {0, 2023, 2024, MAXYEAR}

DateStrings ==
    {<<d, m, y>> : d \in DayFields, m \in MonthFields, y \in YearFields}
        \cup {<< >>, <<1, 1>>}

\* the call is small enough to enumerate its result
SpanOk(s, e) ==
    (Parses(s) /\ e # << >> /\ Parses(e[1])) => strptime(e[1]) - strptime(s) <= MaxSpan

DatesIdle ==
    /\ dPc = "off" /\ dStart = << >> /\ dEnd = << >> /\ dLogger = FALSE
    /\ dResult = NotCalled

DatesInit ==
    /\ dPc = "idle"
    /\ dStart \in DateStrings
    /\ dEnd \in {<< >>} \cup {<<s>> : s \in DateStrings}
    /\ SpanOk(dStart, dEnd)
    /\ dLogger \in BOOLEAN
    /\ dResult = NotCalled

GenerateDates ==
    /\ dPc = "idle"
    /\ dResult' = generate_dates(dStart, dEnd, dLogger)
    /\ dPc' = "done"
    /\ UNCHANGED <<dStart, dEnd, dLogger, xVars, lVars, aVars, bVars>>

DatesNext == GenerateDates

(***************************************************************************)
(* Strings as sequences: helpers.                                          *)
(***************************************************************************)
RECURSIVE LStrip(_, _)
LStrip(s, ws) ==
    IF s # << >> /\ Head(s) \in ws THEN LStrip(Tail(s), ws) ELSE s

RECURSIVE RStrip(_, _)
RStrip(s, ws) ==
    IF s # << >> /\ s[Len(s)] \in ws THEN RStrip(SubSeq(s, 1, Len(s) - 1), ws) ELSE s

\* str.strip()
Strip(s, ws) == RStrip(LStrip(s, ws), ws)

RECURSIVE SeqsUpTo(_, _)
SeqsUpTo(S, n) ==
    IF n = 0 THEN {<< >>}
    ELSE LET shorter == SeqsUpTo(S, n - 1)
         IN  shorter \cup {Append(q, x) : q \in shorter, x \in S}

(***************************************************************************)
(* URLs: urllib.parse on token sequences.                                  *)
(***************************************************************************)
UrlSpace == {" "}

URL_MAIN == <<"https:", "//", "www.inform.kz">>

URL_ARCHIVE == URL_MAIN \o <<"/", "ru", "/", "archive">>

\* number of leading tokens of s that are not in stop
RECURSIVE PrefixLen(_, _)
PrefixLen(s, stop) ==
    IF s = << >> \/ Head(s) \in stop THEN 0 ELSE 1 + PrefixLen(Tail(s), stop)

\* urlparse(url): scheme up to the first ":", netloc after "//" up to the
\* next "/" or "?", then path, then query
urlparse(url) ==
    LET hasScheme == url # << >> /\ Head(url) = "https:"
        rest      == IF hasScheme THEN Tail(url) ELSE url
        hasNet    == rest # << >> /\ Head(rest) = "//"
        afterNet  == IF hasNet THEN Tail(rest) ELSE rest
        n         == IF hasNet THEN PrefixLen(afterNet, {"/", "//", "?"}) ELSE 0
        afterLoc  == SubSeq(afterNet, n + 1, Len(afterNet))
        p         == PrefixLen(afterLoc, {"?"})
    IN  [scheme |-> IF hasScheme THEN <<Head(url)>> ELSE << >>,
         netloc |-> SubSeq(afterNet, 1, n),
         path   |-> SubSeq(afterLoc, 1, p),
         query  |-> SubSeq(afterLoc, p + 2, Len(afterLoc))]

\* ParseResult.geturl(): urlunparse
geturl(u) ==
    LET lead == IF u.netloc # << >> /\ u.path # << >> /\ Head(u.path) \notin {"/", "//"}
                THEN <<"/">> ELSE << >>
        loc  == IF u.netloc # << >> THEN <<"//">> \o u.netloc \o lead ELSE << >>
        q    == IF u.query # << >> THEN <<"?">> \o u.query ELSE << >>
    IN  u.scheme \o loc \o u.path \o q

\* parsed_url._replace(path=f'/ru/archive/{str(i)}').geturl()
PageUrl(url, i) ==
    geturl([urlparse(url) EXCEPT !.path = <<"/", "ru", "/", "archive", "/", i>>])

(***************************************************************************)
(* Pages.  A listing page body is the sequence of its div.lenta_news_block *)
(* blocks, in document order, and its p.pagination control.  A block is    *)
(*   ok(href)   <div><li><a href=...>   the expected layout                *)
(*   noli       the block has no li                                        *)
(*   noanchor   the first li has no anchor                                 *)
(*   nohref     the first anchor of the first li has no href attribute     *)
(* The control is << >> when the page has none, else <<texts>>, the texts  *)
(* of its anchors; an anchor text is <<n>> for the decimal numeral of n    *)
(* and << >> for text that is no integer.                                  *)
(***************************************************************************)
OkBlock(href) == [kind |-> "ok", href |-> href]

BadBlock(k) == [kind |-> k, href |-> << >>]

Response(url, content, pagination) ==
    [url |-> url, content |-> content, pagination |-> pagination]

\* [urlparse(self.URL_MAIN + l).geturl() for l in links],
\* links = [d.li.a['href'].strip() for d in link_divs]
BlockLinks(blocks) ==
    [i \in 1..Len(blocks) |->
        geturl(urlparse(URL_MAIN \o Strip(blocks[i].href, UrlSpace)))]

\* the exception the comprehension raises at the first block that is not ok
FirstBad(blocks) ==
    LET i == CHOOSE j \in 1..Len(blocks) :
                 /\ blocks[j].kind # "ok"
                 /\ \A k \in 1..(j - 1) : blocks[k].kind = "ok"
    IN  blocks[i].kind

_extract_links(response) ==
    LET blocks == response.content
    IN  IF \A i \in 1..Len(blocks) : blocks[i].kind = "ok"
        THEN Returned(BlockLinks(blocks))
        ELSE IF FirstBad(blocks) = "noli" THEN Raised("SystemExit", TRUE)
        ELSE IF FirstBad(blocks) = "noanchor" THEN Raised("TypeError", FALSE)
        ELSE Raised("KeyError", FALSE)

IsIntText(t) == Len(t) = 1

\* Faulty variant: range(int(pi), int(pl)), the last page left out.
PageRangeExclusive(url, pi, pl) ==
    [k \in 1..(IF pl > pi THEN pl - pi ELSE 0) |-> PageUrl(url, pi + k - 1)]

\* [... for i in range(int(pi), int(pl) + 1)]
PageRange(url, pi, pl) ==
    [k \in 1..(IF pl >= pi THEN pl - pi + 1 ELSE 0) |-> PageUrl(url, pi + k - 1)]

_extract_pages(response) ==
    LET pages == response.pagination
    IN  IF pages = << >> THEN Raised("SystemExit", TRUE)           \* AttributeError
        ELSE IF pages[1] = << >> THEN Raised("SystemExit", TRUE)   \* IndexError
        ELSE LET anchors == pages[1]
                 pi == anchors[1]
                 pl == anchors[Len(anchors)]
             IN  IF ~IsIntText(pi) \/ ~IsIntText(pl)
                 THEN Raised("SystemExit", TRUE)                   \* ValueError
                 ELSE Returned(PageRange(response.url, pi[1], pl[1]))

(***************************************************************************)
(* The network: what session.get does for one request.                     *)
(*   transport   a RequestException is raised, no response exists          *)
(*   http        a response with the given status and body                 *)
(***************************************************************************)
Transport == [kind |-> "transport", status |-> 0, content |-> << >>]

Http(status, content) == [kind |-> "http", status |-> status, content |-> content]

\* r.raise_for_status() raises HTTPError for 4xx and 5xx
RaisesForStatus(status) == status >= 400 /\ status < 600

\* On a transport error r was never bound: the handler's own r.url raises
\* UnboundLocalError before logger.error and before raise SystemExit.
get_url(url, net) ==
    IF net.kind = "transport" THEN Raised("UnboundLocalError", FALSE)
    ELSE IF RaisesForStatus(net.status) THEN Raised("SystemExit", TRUE)
    ELSE Returned(Response(url, net.content, << >>))

(***************************************************************************)
(* Crawler._extract_links on one page body.                                *)
(***************************************************************************)
Hrefs ==
    { <<"/", "ru", "/", "a1">>,
      <<" ", "/", "ru", "/", "a2", " ">>,
      URL_MAIN \o <<"/", "ru", "/", "a3">>,
      <<"ru", "/", "a4">> }

Blocks == {OkBlock(h) : h \in Hrefs} \cup {BadBlock(k) : k \in {"noli", "noanchor", "nohref"}}

LandingUrl == URL_ARCHIVE \o <<"?", "date=01.01.2024">>

ExtractIdle == xPc = "off" /\ xResponse = Response(<< >>, << >>, << >>) /\ xResult = NotCalled

ExtractInit ==
    /\ xPc = "idle"
    /\ xResponse \in {Response(LandingUrl, c, << >>) : c \in SeqsUpTo(Blocks, MaxBlocks)}
    /\ xResult = NotCalled

ExtractLinks ==
    /\ xPc = "idle"
    /\ xResult' = _extract_links(xResponse)
    /\ xPc' = "done"
    /\ UNCHANGED <<xResponse, dVars, lVars, aVars, bVars>>

ExtractNext == ExtractLinks

(***************************************************************************)
(* Crawler.get_links: the landing page's links, then one fetch per         *)
(* pagination index.                                                       *)
(***************************************************************************)
ListPages ==
    { << >>,
      <<OkBlock(<<"/", "ru", "/", "a1">>)>>,
      <<OkBlock(<<"/", "ru", "/", "a1">>), OkBlock(<<"/", "ru", "/", "a1">>)>>,
      <<OkBlock(<<"/", "ru", "/", "a2">>), OkBlock(<<"/", "ru", "/", "a1">>)>>,
      <<BadBlock("noli")>> }

AnchorTexts == {<< >>} \cup {<<n>> : n \in 1..MaxPage}

Paginations == {<< >>} \cup {<<a>> : a \in SeqsUpTo(AnchorTexts, MaxAnchors)}

NetOutcomes ==
    {Transport} \cup {Http(st, << >>) : st \in {304, 404, 500}}
        \cup {Http(200, c) : c \in ListPages}

LinksIdle ==
    /\ lPc = "off" /\ lResponse = Response(<< >>, << >>, << >>)
    /\ lArticles = << >> /\ lPages = << >> /\ lFetches = << >> /\ lOutcome = NotCalled

LinksInit ==
    /\ lPc = "start"
    /\ lResponse \in {Response(LandingUrl, c, p) : c \in ListPages, p \in Paginations}
    /\ lArticles = << >>
    /\ lPages = << >>
    /\ lFetches = << >>
    /\ lOutcome = NotCalled

\* articles = self._extract_links(response); the iterable of the for loop
GetLinksStart ==
    /\ lPc = "start"
    /\ LET a == _extract_links(lResponse)
           p == _extract_pages(lResponse)
       IN  IF a.kind # "return"
           THEN /\ lOutcome' = a /\ lPc' = "done"
                /\ UNCHANGED <<lArticles, lPages>>
           ELSE IF p.kind # "return"
           THEN /\ lOutcome' = p /\ lPc' = "done"
                /\ lArticles' = a.value
                /\ UNCHANGED lPages
           ELSE /\ lArticles' = a.value
                /\ lPages' = p.value
                /\ lPc' = "loop"
                /\ UNCHANGED lOutcome
    /\ UNCHANGED <<lResponse, lFetches, dVars, xVars, aVars, bVars>>

\* one iteration: r = self.get_url(l); articles.extend(self._extract_links(r))
GetLinksFetch ==
    /\ lPc = "loop"
    /\ lPages # << >>
    /\ \E net \in NetOutcomes :
         LET url == Head(lPages)
             r   == get_url(url, net)
             e   == _extract_links(r.value)
         IN  /\ lFetches' = Append(lFetches, [url |-> url, net |-> net, result |-> r])
             /\ IF r.kind # "return"
                THEN /\ lOutcome' = r /\ lPc' = "done"
                     /\ UNCHANGED <<lArticles, lPages>>
                ELSE IF e.kind # "return"
                THEN /\ lOutcome' = e /\ lPc' = "done"
                     /\ UNCHANGED <<lArticles, lPages>>
                ELSE /\ lArticles' = lArticles \o e.value
                     /\ lPages' = Tail(lPages)
                     /\ UNCHANGED <<lOutcome, lPc>>
    /\ UNCHANGED <<lResponse, dVars, xVars, aVars, bVars>>

\* return articles
GetLinksReturn ==
    /\ lPc = "loop"
    /\ lPages = << >>
    /\ lOutcome' = Returned(lArticles)
    /\ lPc' = "done"
    /\ UNCHANGED <<lResponse, lArticles, lPages, lFetches, dVars, xVars, aVars, bVars>>

LinksNext == GetLinksStart \/ GetLinksFetch \/ GetLinksReturn

(***************************************************************************)
(* Article pages.  The parse tree of an article page:                      *)
(*   title, date, keywords, author   << >> when the block is absent, else  *)
(*                                   <<text>>, the block's text            *)
(*   pre     the div.frame_news_article blocks that precede the body block *)
(*   body    << >> when div.article_news_body is absent, else <<children>>,*)
(*           its children in document order                                *)
(* A child is a text node, a related-articles frame (the hrefs of its      *)
(* anchors, << >> for an anchor without href, and its text) or a           *)
(* blockquote.instagram-media (its text).                                  *)
(***************************************************************************)
SP == " "

NL == "\n"

CR == "\r"

Whitespace == {SP, NL, CR}

TextNode(t) == [kind |-> "text", anchors |-> << >>, text |-> t]

FrameNode(anchors, t) == [kind |-> "frame", anchors |-> anchors, text |-> t]

QuoteNode(t) == [kind |-> "quote", anchors |-> << >>, text |-> t]

\* Tag.getText() of the body block: the texts of its children, concatenated
RECURSIVE GetText(_)
GetText(children) ==
    IF children = << >> THEN << >>
    ELSE Head(children).text \o GetText(Tail(children))

\* the children of the body block, none when the block is absent
BodyChildren(soup) == IF soup.body = << >> THEN << >> ELSE soup.body[1]

\* index of the first child of the given kind, 0 when there is none
FirstOfKind(children, kind) ==
    IF \E i \in 1..Len(children) : children[i].kind = kind
    THEN CHOOSE i \in 1..Len(children) :
             /\ children[i].kind = kind
             /\ \A k \in 1..(i - 1) : children[k].kind # kind
    ELSE 0

RemoveAt(q, i) == SubSeq(q, 1, i - 1) \o SubSeq(q, i + 1, Len(q))

RECURSIVE RemoveKind(_, _)
RemoveKind(children, kind) ==
    IF children = << >> THEN << >>
    ELSE IF Head(children).kind = kind THEN RemoveKind(Tail(children), kind)
    ELSE <<Head(children)>> \o RemoveKind(Tail(children), kind)

\* soup.find('div', class_ = 'frame_news_article'): the first in document order
HasFrame(soup) ==
    soup.pre # << >> \/ FirstOfKind(BodyChildren(soup), "frame") # 0

FoundFrame(soup) ==
    IF soup.pre # << >> THEN Head(soup.pre)
    ELSE BodyChildren(soup)[FirstOfKind(BodyChildren(soup), "frame")]

\* Faulty variant: the frame is left in the tree.
KeepFrame(soup) == soup

\* links.decompose()
DecomposeFrame(soup) ==
    IF ~HasFrame(soup) THEN soup
    ELSE IF soup.pre # << >> THEN [soup EXCEPT !.pre = Tail(soup.pre)]
    ELSE [soup EXCEPT !.body =
             <<RemoveAt(soup.body[1], FirstOfKind(soup.body[1], "frame"))>>]

\* for q in quotes: q.decompose()
DecomposeQuotes(soup) ==
    IF soup.body = << >> THEN soup
    ELSE [soup EXCEPT !.body = <<RemoveKind(soup.body[1], "quote")>>]

\* text of a required block, stripped; AttributeError on None is logged and
\* ends the run
RequiredText(block) ==
    IF block = << >> THEN Raised("SystemExit", TRUE)
    ELSE Returned(Strip(block[1], Whitespace))

_get_title(soup) == RequiredText(soup.title)

_get_date(soup) == RequiredText(soup.date)

\* res.add(a['href']) for every anchor of the frame: KeyError, which the
\* except AttributeError does not catch, for an anchor without href;
\* the value is the set res
_get_links(soup) ==
    IF ~HasFrame(soup) THEN Returned({})
    ELSE LET anchors == FoundFrame(soup).anchors
         IN  IF \E i \in 1..Len(anchors) : anchors[i] = << >>
             THEN Raised("KeyError", FALSE)
             ELSE Returned({anchors[i][1] : i \in 1..Len(anchors)})

\* re.sub(c + '+', c, s)
RECURSIVE CollapseRuns(_, _)
CollapseRuns(s, c) ==
    IF Len(s) < 2 THEN s
    ELSE IF s[1] = c /\ s[2] = c THEN CollapseRuns(Tail(s), c)
    ELSE <<Head(s)>> \o CollapseRuns(Tail(s), c)

\* re.sub(from, to, s) for single characters
ReplaceChar(s, from, to) == [i \in 1..Len(s) |-> IF s[i] = from THEN to ELSE s[i]]

\* re.sub('\n +', '\n', s)
RECURSIVE DropSpacesAfterNewline(_)
DropSpacesAfterNewline(s) ==
    IF s = << >> THEN << >>
    ELSE IF Head(s) = NL
         THEN <<NL>> \o DropSpacesAfterNewline(LStrip(Tail(s), {SP}))
    ELSE <<Head(s)>> \o DropSpacesAfterNewline(Tail(s))

\* re.sub(' +\n', '\n', s)
RECURSIVE DropSpacesBeforeNewline(_)
DropSpacesBeforeNewline(s) ==
    IF s = << >> THEN << >>
    ELSE IF Head(s) = SP
         THEN LET rest == LStrip(s, {SP})
                  run  == SubSeq(s, 1, Len(s) - Len(rest))
              IN  IF rest # << >> /\ Head(rest) = NL
                  THEN DropSpacesBeforeNewline(rest)
                  ELSE run \o DropSpacesBeforeNewline(rest)
    ELSE <<Head(s)>> \o DropSpacesBeforeNewline(Tail(s))

\* Faulty variant: the ' +\n' substitution is left out.
NormalizeNoTrailing(text) ==
    CollapseRuns(
        DropSpacesAfterNewline(
            ReplaceChar(CollapseRuns(Strip(text, Whitespace), SP), CR, NL)), NL)

\* the strip and the five substitutions of _get_body, in their order
Normalize(text) ==
    CollapseRuns(
        DropSpacesBeforeNewline(
            DropSpacesAfterNewline(
                ReplaceChar(CollapseRuns(Strip(text, Whitespace), SP), CR, NL))), NL)

_get_body(soup) ==
    IF soup.body = << >> THEN Raised("SystemExit", TRUE)
    ELSE Returned(Normalize(GetText(soup.body[1])))

\* str.split(sep)
RECURSIVE Split(_, _)
Split(s, sep) ==
    LET n == PrefixLen(s, {sep})
    IN  IF n = Len(s) THEN <<s>>
        ELSE <<SubSeq(s, 1, n)>> \o Split(SubSeq(s, n + 2, Len(s)), sep)

RECURSIVE StripNonEmpty(_)
StripNonEmpty(pieces) ==
    IF pieces = << >> THEN << >>
    ELSE LET t == Strip(Head(pieces), Whitespace)
         IN  (IF Len(t) > 0 THEN <<t>> ELSE << >>) \o StripNonEmpty(Tail(pieces))

\* [t.strip() for t in keywords.getText().split('#') if len(t.strip()) > 0]
_get_keywords(soup) ==
    IF soup.keywords = << >> THEN Raised("SystemExit", TRUE)
    ELSE Returned(StripNonEmpty(Split(soup.keywords[1], "#")))

\* None when there is no p.name_p, else its stripped text
_get_author(soup) ==
    IF soup.author = << >> THEN Returned(<< >>)
    ELSE Returned(<<Strip(soup.author[1], Whitespace)>>)

\* Faulty variant: if author is not None
AuthorNotNone(author) == author # << >>

\* if author: neither None nor the empty string
AuthorTruthy(author) == author # << >> /\ author[1] # << >>

\* the dictionary res: the keys that are set, with their values
Assemble(url, f) ==
    [k \in {"url", "title", "date", "body"}
           \cup (IF Cardinality(f.links) > 0 THEN {"links"} ELSE {})
           \cup (IF Len(f.keywords) > 0 THEN {"keywords"} ELSE {})
           \cup (IF AuthorTruthy(f.author) THEN {"author"} ELSE {}) |->
        IF k = "url" THEN url
        ELSE IF k = "title" THEN f.title
        ELSE IF k = "date" THEN f.date
        ELSE IF k = "body" THEN f.body
        ELSE IF k = "links" THEN f.links
        ELSE IF k = "keywords" THEN f.keywords
        ELSE f.author]

(***************************************************************************)
(* Crawler.extract_article, field by field on the one parse tree.          *)
(***************************************************************************)
ArticleUrl == URL_MAIN \o <<"/", "ru", "/", "a1">>

Children ==
    { TextNode(<<"a">>),
      TextNode(<<SP>>),
      FrameNode(<< <<"A">>, <<"B">>, <<"A">> >>, <<"f">>),
      FrameNode(<< <<"C">> >>, <<"g">>),
      FrameNode(<< << >> >>, <<"h">>),
      QuoteNode(<<"q">>) }

ArticlePages ==
    [ title    : {<< >>, << <<SP>> >>, << <<SP, "T", SP>> >>},
      date     : {<< >>, << <<"D">> >>},
      pre      : {<< >>, <<FrameNode(<< <<"D">> >>, <<"p">>)>>},
      body     : {<< >>} \cup {<<c>> : c \in SeqsUpTo(Children, MaxChildren)},
      keywords : {<< >>, << <<"#">> >>, << <<"#", "k", SP, "#", "m">> >>},
      author   : {<< >>, << <<SP>> >>, << <<"A">> >>} ]

NoFields ==
    [title |-> << >>, date |-> << >>, links |-> {}, body |-> << >>,
     keywords |-> << >>, author |-> << >>]

NoPage ==
    [title |-> << >>, date |-> << >>, pre |-> << >>, body |-> << >>,
     keywords |-> << >>, author |-> << >>]

ArticleIdle ==
    /\ aPc = "off" /\ aResponse = [url |-> << >>, content |-> NoPage]
    /\ aSoup = NoPage /\ aFields = NoFields /\ aOutcome = NotCalled

\* soup = bs(response.content, 'html.parser'); res['url'] = response.url
ArticleInit ==
    /\ aPc = "title"
    /\ aResponse \in {[url |-> ArticleUrl, content |-> p] : p \in ArticlePages}
    /\ aSoup = aResponse.content
    /\ aFields = NoFields
    /\ aOutcome = NotCalled

\* a field extractor returned r: keep its value and go on, or end the call
\* with its exception
Step(r, field, next) ==
    IF r.kind # "return"
    THEN /\ aOutcome' = r /\ aPc' = "done" /\ UNCHANGED aFields
    ELSE /\ aFields' = [aFields EXCEPT ![field] = r.value]
         /\ aPc' = next /\ UNCHANGED aOutcome

GetTitle ==
    /\ aPc = "title"
    /\ Step(_get_title(aSoup), "title", "date")
    /\ UNCHANGED <<aResponse, aSoup, dVars, xVars, lVars, bVars>>

GetDate ==
    /\ aPc = "date"
    /\ Step(_get_date(aSoup), "date", "links")
    /\ UNCHANGED <<aResponse, aSoup, dVars, xVars, lVars, bVars>>

GetLinks ==
    /\ aPc = "links"
    /\ Step(_get_links(aSoup), "links", "quotes")
    /\ aSoup' = IF _get_links(aSoup).kind = "return" THEN DecomposeFrame(aSoup) ELSE aSoup
    /\ UNCHANGED <<aResponse, dVars, xVars, lVars, bVars>>

DecomposeQuotesStep ==
    /\ aPc = "quotes"
    /\ aSoup' = DecomposeQuotes(aSoup)
    /\ aPc' = "body"
    /\ UNCHANGED <<aResponse, aFields, aOutcome, dVars, xVars, lVars, bVars>>

GetBody ==
    /\ aPc = "body"
    /\ Step(_get_body(aSoup), "body", "keywords")
    /\ UNCHANGED <<aResponse, aSoup, dVars, xVars, lVars, bVars>>

GetKeywords ==
    /\ aPc = "keywords"
    /\ Step(_get_keywords(aSoup), "keywords", "author")
    /\ UNCHANGED <<aResponse, aSoup, dVars, xVars, lVars, bVars>>

GetAuthor ==
    /\ aPc = "author"
    /\ Step(_get_author(aSoup), "author", "assemble")
    /\ UNCHANGED <<aResponse, aSoup, dVars, xVars, lVars, bVars>>

\* res[...] = ...; return res
ReturnArticle ==
    /\ aPc = "assemble"
    /\ aOutcome' = Returned(Assemble(aResponse.url, aFields))
    /\ aPc' = "done"
    /\ UNCHANGED <<aResponse, aSoup, aFields, dVars, xVars, lVars, bVars>>

ArticleNext ==
    \/ GetTitle \/ GetDate \/ GetLinks \/ DecomposeQuotesStep
    \/ GetBody \/ GetKeywords \/ GetAuthor \/ ReturnArticle

(***************************************************************************)
(* Crawler._get_body on a body block holding one text.                     *)
(***************************************************************************)
Chars == {SP, CR, NL, "a", "b"}

BodyIdle == bPc = "off" /\ bRaw = << >> /\ bOut = NotCalled

BodyInit ==
    /\ bPc = "idle"
    /\ bRaw \in SeqsUpTo(Chars, MaxLen)
    /\ bOut = NotCalled

GetBodyText ==
    /\ bPc = "idle"
    /\ bOut' = _get_body([NoPage EXCEPT !.body = <<(<<TextNode(bRaw)>>)>>])
    /\ bPc' = "done"
    /\ UNCHANGED <<bRaw, dVars, xVars, lVars, aVars>>

BodyNext == GetBodyText

(***************************************************************************)
(* Specifications: one per unit, the other units' variables at rest.       *)
(***************************************************************************)
InitDates == DatesInit /\ ExtractIdle /\ LinksIdle /\ ArticleIdle /\ BodyIdle

SpecDates == InitDates /\ [][DatesNext]_vars

InitExtract == DatesIdle /\ ExtractInit /\ LinksIdle /\ ArticleIdle /\ BodyIdle

SpecExtract == InitExtract /\ [][ExtractNext]_vars

InitLinks == DatesIdle /\ ExtractIdle /\ LinksInit /\ ArticleIdle /\ BodyIdle

SpecLinks == InitLinks /\ [][LinksNext]_vars

InitArticle == DatesIdle /\ ExtractIdle /\ LinksIdle /\ ArticleInit /\ BodyIdle

SpecArticle == InitArticle /\ [][ArticleNext]_vars

InitBody == DatesIdle /\ ExtractIdle /\ LinksIdle /\ ArticleIdle /\ BodyInit

SpecBody == InitBody /\ [][BodyNext]_vars

(***************************************************************************)
(* Claims about the date-range helper (checked under SpecDates).           *)
(***************************************************************************)
\* the calendar day after <<dd, mm, yyyy>>
NextDay(t) ==
    IF t[1] < DaysInMonth(t[3], t[2]) THEN <<t[1] + 1, t[2], t[3]>>
    ELSE IF t[2] < 12 THEN <<1, t[2] + 1, t[3]>>
    ELSE <<1, 1, t[3] + 1>>

\* a is an earlier calendar day than b
Before(a, b) ==
    \/ a[3] < b[3]
    \/ a[3] = b[3] /\ a[2] < b[2]
    \/ a[3] = b[3] /\ a[2] = b[2] /\ a[1] < b[1]

EndGiven == dEnd # << >>

ValidRange == Parses(dStart) /\ EndGiven /\ Parses(dEnd[1]) /\ Before(dStart, dEnd[1])

\* the value is the run of consecutive calendar days from first up to, not
\* including, last
IsDayRun(value, first, last) ==
    /\ Len(value) >= 1
    /\ value[1] = first
    /\ \A i \in 1..(Len(value) - 1) : value[i + 1] = NextDay(value[i])
    /\ NextDay(value[Len(value)]) = last

RangeIsExact ==
    ValidRange =>
        /\ dResult.kind = "return"
        /\ IsDayRun(dResult.value, dStart, dEnd[1])
        /\ Len(dResult.value) = strptime(dEnd[1]) - strptime(dStart)

LastDay == <<31, 12, MAXYEAR>>

BadDateInput ==
    \/ ~Parses(dStart)
    \/ EndGiven /\ ~Parses(dEnd[1])
    \/ Parses(dStart) /\ EndGiven /\ Parses(dEnd[1]) /\ ~Before(dStart, dEnd[1])

\* C2: a start or end that does not parse, or an end equal to or before the
\* start, is logged and ends the run with SystemExit, whatever the logger
\* argument (the default included); no date list is returned.
CexC2 ==
    (dPc = "done" /\ BadDateInput) =>
        /\ dResult.kind = "SystemExit"
        /\ dResult.logged
        /\ dResult.value = << >>

(***************************************************************************)
(* Claims about link extraction (checked under SpecExtract).               *)
(***************************************************************************)
\* urljoin(origin, href): what resolving href against the site origin gives
UrlJoin(origin, href) ==
    IF urlparse(href).scheme # << >> THEN href
    ELSE IF href # << >> /\ Head(href) = "/" THEN origin \o href
    ELSE origin \o <<"/">> \o href

SameOrigin(url, origin) ==
    /\ urlparse(url).scheme = urlparse(origin).scheme
    /\ urlparse(url).netloc = urlparse(origin).netloc

WellFormed(blocks) == \A i \in 1..Len(blocks) : blocks[i].kind = "ok"

\* C5: for a page body with N well-formed news-list blocks _extract_links
\* returns N URLs, one per block in document order, each the block's href
\* resolved against https://www.inform.kz into an absolute URL of that
\* origin, for relative and for already-absolute hrefs alike.
CexC5 ==
    (xPc = "done" /\ WellFormed(xResponse.content)) =>
        /\ xResult.kind = "return"
        /\ Len(xResult.value) = Len(xResponse.content)
        /\ \A i \in 1..Len(xResponse.content) :
             /\ xResult.value[i] =
                    UrlJoin(URL_MAIN, Strip(xResponse.content[i].href, UrlSpace))
             /\ SameOrigin(xResult.value[i], URL_MAIN)

(***************************************************************************)
(* Claims about get_links and get_url (checked under SpecLinks).           *)
(***************************************************************************)
FirstIndex == lResponse.pagination[1][1][1]

LastIndex == LET a == lResponse.pagination[1] IN a[Len(a)][1]

RECURSIVE FetchedLinks(_)
FetchedLinks(fetches) ==
    IF fetches = << >> THEN << >>
    ELSE BlockLinks(Head(fetches).net.content) \o FetchedLinks(Tail(fetches))

\* every page served, the landing page included, shows n links
Uniform(n) ==
    /\ Len(lResponse.content) = n
    /\ \A k \in 1..Len(lFetches) : Len(lFetches[k].net.content) = n

GetLinksReturned == lPc = "done" /\ lOutcome.kind = "return"

\* landing links, then the links of /ru/archive/{f}, ..., /ru/archive/{l},
\* one fetch per index, in that order, nothing dropped
Concatenated ==
    /\ Len(lFetches) = (IF LastIndex >= FirstIndex THEN LastIndex - FirstIndex + 1 ELSE 0)
    /\ \A k \in 1..Len(lFetches) :
         lFetches[k].url = URL_ARCHIVE \o <<"/", FirstIndex + k - 1>>
                               \o <<"?", "date=01.01.2024">>
    /\ lOutcome.value = BlockLinks(lResponse.content) \o FetchedLinks(lFetches)

\* C3 (amended): get_links returns the landing page's links followed by the
\* links of page f, f+1, ..., l (inclusive, ascending, one fetch per index,
\* no deduplication; no page is fetched when l < f); when every page shows
\* n links the result has n * (l - f + 2) entries if l >= f - 1, and n
\* entries otherwise.
ThmC3 ==
    GetLinksReturned =>
        /\ Concatenated
        /\ \A n \in 0..2 : Uniform(n) =>
             Len(lOutcome.value) =
                 (IF LastIndex >= FirstIndex - 1
                  THEN n * (LastIndex - FirstIndex + 2) ELSE n)

\* C3 as stated: the result has n * (l - f + 2) entries for every f and l.
CexC3 ==
    GetLinksReturned =>
        /\ Concatenated
        /\ \A n \in 0..2 : Uniform(n) =>
             Len(lOutcome.value) = n * (LastIndex - FirstIndex + 2)

\* pages 1..3 were fetched after a landing page with the content of page 1,
\* whose links therefore appear twice at the head of the result
WitC3 ==
    /\ GetLinksReturned
    /\ FirstIndex = 1 /\ LastIndex = 3
    /\ Len(lFetches) = 3
    /\ Len(lResponse.content) = 2
    /\ lFetches[1].net.content = lResponse.content
    /\ Len(lOutcome.value) = 8
    /\ SubSeq(lOutcome.value, 1, 2) = SubSeq(lOutcome.value, 3, 4)

FetchFailed(net) ==
    net.kind = "transport" \/ ~(net.status >= 200 /\ net.status < 300)

\* C4: a get_url call whose request fails with a transport error or whose
\* response has a non-2xx status logs the failure and ends with SystemExit;
\* it returns no response and the call issues no second request.
CexC4 ==
    \A k \in 1..Len(lFetches) :
        FetchFailed(lFetches[k].net) =>
            /\ lFetches[k].result.kind = "SystemExit"
            /\ lFetches[k].result.logged
            /\ k = Len(lFetches)

(***************************************************************************)
(* Claims about extract_article (checked under SpecArticle).               *)
(***************************************************************************)
Page == aResponse.content

Rec == aOutcome.value

ArticleReturned == aPc = "done" /\ aOutcome.kind = "return"

RequiredKeys == {"url", "title", "date", "body"}

MissingRequiredBlock ==
    Page.title = << >> \/ Page.date = << >> \/ Page.body = << >> \/ Page.keywords = << >>

\* C6: every call of extract_article either returns a record with all of
\* url, title, date and body, or aborts with a logged fatal error and
\* returns no record; a page missing the title, date, body or keyword block
\* never yields a record.
CexC6 ==
    aPc = "done" =>
        /\ \/ aOutcome.kind = "return" /\ RequiredKeys \subseteq DOMAIN Rec
           \/ aOutcome.kind = "SystemExit" /\ aOutcome.logged /\ aOutcome.value = << >>
        /\ MissingRequiredBlock => aOutcome.kind # "return"

\* C7: the title of every returned record is a non-empty string.
CexC7 == ArticleReturned => Rec.title # << >>

\* C8: in every returned record each optional field is absent or non-empty:
\* 'author' is absent when the page has no author block and is never None
\* or the empty string, 'links' is never an empty collection, 'keywords'
\* never an empty list.
ThmC8 ==
    ArticleReturned =>
        /\ Page.author = << >> => "author" \notin DOMAIN Rec
        /\ "author" \in DOMAIN Rec => (Rec.author # << >> /\ Rec.author[1] # << >>)
        /\ "links" \in DOMAIN Rec => Rec.links # {}
        /\ "keywords" \in DOMAIN Rec => Rec.keywords # << >>

\* a record was returned for a page without author block, without frame and
\* with a keyword block holding no keyword
WitC8 ==
    /\ ArticleReturned
    /\ Page.author = << >>
    /\ Page.keywords = << <<"#">> >>
    /\ Page.pre = << >>
    /\ DOMAIN Rec = RequiredKeys

IsFrame(node) == node.kind = "frame"

IsText(node) == node.kind = "text"

NotQuote(node) == node.kind # "quote"

\* the related-articles frames of the page, in document order
AllFrames == Page.pre \o SelectSeq(BodyChildren(Page), IsFrame)

HrefsOf(frame) == {frame.anchors[i][1] : i \in 1..Len(frame.anchors)}

\* the related links are the distinct hrefs of the first frame's anchors
LinksOfFirstFrame ==
    IF AllFrames = << >> \/ HrefsOf(AllFrames[1]) = {}
    THEN "links" \notin DOMAIN Rec
    ELSE "links" \in DOMAIN Rec /\ Rec.links = HrefsOf(AllFrames[1])

\* the body's children without the quote blocks and without the first frame
\* of the page, when that frame lies in the body
WithoutFirstFrame ==
    LET kept == SelectSeq(BodyChildren(Page), NotQuote)
        i    == IF Page.pre # << >> THEN 0 ELSE FirstOfKind(kept, "frame")
    IN  IF i = 0 THEN kept ELSE SubSeq(kept, 1, i - 1) \o SubSeq(kept, i + 1, Len(kept))

\* the text Normalize leaves of a text: its non-whitespace words
RECURSIVE Words(_)
Words(s) ==
    LET t == LStrip(s, Whitespace)
        n == PrefixLen(t, Whitespace)
    IN  IF t = << >> THEN << >>
        ELSE <<SubSeq(t, 1, n)>> \o Words(SubSeq(t, n + 1, Len(t)))

\* C9 (amended): the related links of a returned record are exactly the set
\* of distinct hrefs of the anchors inside the first related-articles frame
\* of the page (duplicates collapsed), and the body holds no text of that
\* first frame or of any embedded quote block: it is the text of the body's
\* other children.  Text of a second frame inside the body stays in it.
ThmC9 ==
    ArticleReturned =>
        /\ LinksOfFirstFrame
        /\ Words(Rec.body) = Words(GetText(WithoutFirstFrame))

\* C9 as stated: the body holds no text that was inside a related-articles
\* frame or a quote block, so it is the text of the body's text nodes.
CexC9 ==
    ArticleReturned =>
        /\ LinksOfFirstFrame
        /\ Words(Rec.body) = Words(GetText(SelectSeq(BodyChildren(Page), IsText)))

\* a record for a body of text, a frame with anchors A, B, A and a quote
WitC9 ==
    /\ ArticleReturned
    /\ Page.pre = << >>
    /\ BodyChildren(Page) =
           << TextNode(<<"a">>),
              FrameNode(<< <<"A">>, <<"B">>, <<"A">> >>, <<"f">>),
              QuoteNode(<<"q">>) >>
    /\ Rec.links = {"A", "B"}
    /\ Rec.body = <<"a">>

(***************************************************************************)
(* Claims about the body's whitespace normalization (checked under         *)
(* SpecBody).                                                              *)
(***************************************************************************)
NoPair(s, A, B) == \A i \in 1..(Len(s) - 1) : ~(s[i] \in A /\ s[i + 1] \in B)

\* C10: the string _get_body returns has no leading or trailing whitespace,
\* no carriage return, no two consecutive spaces, no space directly before
\* or after a newline and no two consecutive newlines, and its sequence of
\* non-whitespace words is that of the block's text.
ThmC10 ==
    bPc = "done" =>
        /\ bOut.kind = "return"
        /\ LET out == bOut.value
           IN  /\ out # << >> => (out[1] \notin Whitespace /\ out[Len(out)] \notin Whitespace)
               /\ \A i \in 1..Len(out) : out[i] # CR
               /\ NoPair(out, {SP}, {SP})
               /\ NoPair(out, {SP}, {NL})
               /\ NoPair(out, {NL}, {SP})
               /\ NoPair(out, {NL}, {NL})
               /\ Words(out) = Words(bRaw)

\* "a \r\n b" was normalized to "a\nb"
WitC10 ==
    /\ bPc = "done"
    /\ bRaw = <<"a", SP, CR, NL, "b">>
    /\ bOut = Returned(<<"a", NL, "b">>)

====
